---- MODULE Spec2Model ----
(***************************************************************************)
(* Model of the <product-recommendations> custom element of                *)
(* assets/product-recommendations.js (first class definition, lines        *)
(* 1-358): the two activation gates, the orchestrator #loadRecommendations *)
(* with its three source strategies, the per-instance response cache and   *)
(* the abortable fetch handle.                                             *)
(*                                                                         *)
(* One action is one uninterrupted piece of JavaScript: a callback from    *)
(* its start, or an async function from the resumption of an await, up to  *)
(* the next await of a network request.  A cache hit does not suspend on   *)
(* the network, so the code after it belongs to the same action.           *)
(***************************************************************************)
EXTENDS Integers, Sequences, FiniteSets, TLC

\* ------------------------------------------------------------------ bounds
MaxRuns      == 2    \* activations of #loadRecommendations in one behaviour
MaxMutations == 1    \* attribute changes made by the page
MaxDetach    == 1    \* detach (disconnectedCallback) events
MaxProducts  == 1    \* length of a product list in a JSON response
MaxCollProducts == 5 \* length of the product list of the collection endpoint

\* --------------------------------------------------------------- constants
DefaultLimit   == 4
DefaultSection == "product-recommendations"
GoodId         == "W1"
OtherId        == "W2"
BadId          == "W\"1"   \* an id that breaks the attribute selector
ProductIds     == {"P1", "P2"}

VARIABLES
  attached,      \* the element is in the document
  ioObserving,   \* #intersectionObserver observes the element
  moObserving,   \* #mutationObserver observes the element
  records,       \* attribute names of the queued mutation records
  productId,     \* dataset.productId ("" when absent)
  layoutType,    \* dataset.layoutType
  sectionId,     \* dataset.sectionId ("" when absent)
  id,            \* this.id ("" when absent)
  urlLimit,      \* the limit= digits of dataset.url (-1 when there are none)
  designMode,    \* window.Shopify?.designMode
  performed,     \* dataset.recommendationsPerformed
  hidden,        \* classList.contains('hidden')
  dataError,     \* the data-error attribute is set
  hasList,       \* the element contains a list container
  listGen,       \* number of replacements of this.innerHTML
  content,       \* what the element shows
  cache,         \* #cachedRecommendations
  activeFetch,   \* #activeFetch: 0 is null, r the controller made by run r
  runs,          \* the invocations of #loadRecommendations, in start order
  okUrls,        \* history: URLs whose request completed with HTTP success
  lateCalls,     \* history: URLs requested again after that
  nMut,          \* attribute changes made so far
  nDetach,       \* detaches so far
  hist           \* history: whether the page changed an attribute while the
                 \* element was detached

vars == <<attached, ioObserving, moObserving, records, productId, layoutType,
          sectionId, id, urlLimit, designMode, performed, hidden, dataError,
          hasList, listGen, content, cache, activeFetch, runs, okUrls,
          lateCalls, nMut, nDetach, hist>>

\* -------------------------------------------------------- sequence helpers
RECURSIVE SeqsUpTo(_, _)
SeqsUpTo(S, n) ==
  IF n = 0 THEN {<<>>}
  ELSE LET shorter == SeqsUpTo(S, n - 1)
       IN  shorter \cup {Append(s, x) : s \in {t \in shorter : Len(t) = n - 1}, x \in S}

Take(s, n) == IF n >= Len(s) THEN s ELSE IF n <= 0 THEN <<>> ELSE SubSeq(s, 1, n)

Count(s, e) == Cardinality({i \in 1..Len(s) : s[i] = e})

Has(s, e) == \E i \in 1..Len(s) : s[i] = e

\* ------------------------------------------------------------ URLs, bodies
Url(pid, sec) == <<pid, sec>>

UrlsToTry(pid, sec) ==
  <<Url(pid, IF sec = "" THEN DefaultSection ELSE sec)>>
  \o (IF sec # "" /\ sec # DefaultSection THEN <<Url(pid, DefaultSection)>> ELSE <<>>)

\* A response body of the markup endpoint: the empty string, or markup with
\* one <product-recommendations id=forId> element whose innerHTML is blank,
\* non-blank without the marker ("plain"), or non-blank with a
\* [data-has-recommendations="true"] list container ("marked").
EmptyBody == [forId |-> "", inner |-> "empty"]
Bodies ==
  {EmptyBody} \cup {[forId |-> GoodId, inner |-> c] : c \in {"blank", "plain", "marked"}}
              \cup {[forId |-> OtherId, inner |-> "marked"]}

Truthy(body) == body # EmptyBody

CacheHit(c, url) == url \in DOMAIN c /\ Truthy(c[url])

CachePut(c, url, text) ==
  [u \in DOMAIN c \cup {url} |-> IF u = url THEN text ELSE c[u]]

SelectorThrows(elemId) == elemId = BadId

\* A fragment lookup that takes the first element whatever its id.
FragmentInner_AnyId(body, elemId) == body.inner

FragmentInner(body, elemId) == IF body.forId = elemId THEN body.inner ELSE "none"

NonBlank(inner) == inner \in {"plain", "marked"}

HasMarker(inner) == inner = "marked"

\* `dataset.url?.match(/limit=(\d+)/)?.[1] || 4`: the matched digits are a
\* non-empty string, hence truthy even when they read "0".
Limit(digits) == IF digits = -1 THEN DefaultLimit ELSE digits

\* ------------------------------------------------- the program state record
\* The fields a run of the code reads and writes, threaded through the
\* operators below so that one action can apply several statements in order.
Cur ==
  [performed |-> performed, hidden |-> hidden, dataError |-> dataError,
   hasList |-> hasList, listGen |-> listGen, content |-> content,
   cache |-> cache, activeFetch |-> activeFetch, runs |-> runs,
   records |-> records, okUrls |-> okUrls, lateCalls |-> lateCalls]

Apply(S) ==
  /\ performed' = S.performed
  /\ hidden' = S.hidden
  /\ dataError' = S.dataError
  /\ hasList' = S.hasList
  /\ listGen' = S.listGen
  /\ content' = S.content
  /\ cache' = S.cache
  /\ activeFetch' = S.activeFetch
  /\ runs' = S.runs
  /\ records' = S.records
  /\ okUrls' = S.okUrls
  /\ lateCalls' = S.lateCalls

\* An attribute write queues one mutation record while the observer observes.
Queue(S, names) ==
  [S EXCEPT !.records = IF moObserving THEN @ \o names ELSE @]

Ev(S, r, e) == [S EXCEPT !.runs[r].events = Append(@, e)]

\* A completion write that also clears the error state.
SetPerformed_Unhides(S, r) ==
  Ev(Queue([S EXCEPT !.performed = "true", !.hidden = FALSE, !.dataError = FALSE],
           <<"data-recommendations-performed">>), r, "flag")

\* this.dataset.recommendationsPerformed = 'true'
SetPerformed(S, r) ==
  Ev(Queue([S EXCEPT !.performed = "true"], <<"data-recommendations-performed">>), r, "flag")

\* An error handler that sets data-error but leaves the element visible.
HandleError_NoHide(S, r) ==
  Ev(Queue([S EXCEPT !.dataError = TRUE], <<"data-error">>), r, "error")

\* #handleError
HandleError(S, r) ==
  Ev(Queue([S EXCEPT !.hidden = TRUE, !.dataError = TRUE], <<"class", "data-error">>),
     r, "error")

\* The run has returned: keep what the element looked like at that moment.
End(S, r, outcome) ==
  [S EXCEPT !.runs[r].pc = "done",
            !.runs[r].outcome = outcome,
            !.runs[r].aborted = FALSE,
            !.runs[r].superseded = FALSE,
            !.runs[r].atEnd = [performed |-> S.performed, hidden |-> S.hidden,
                               dataError |-> S.dataError]]

\* ------------------------------------------------------------ the renderer
\* #renderProductCards: the cards of `products` in the layout the element has
\* at that moment.  `visible` is whether the container rendered into is still
\* a child of the element.
RenderProductCards(S, r, products, visible) ==
  Ev(IF visible
       THEN [S EXCEPT !.content = [kind |-> "cards", items |-> products,
                                   layout |-> layoutType]]
       ELSE S,
     r, "render")

\* this.innerHTML = recommendations.innerHTML
Adopt(S, r, inner) ==
  Ev([S EXCEPT !.content = [kind |-> "fragment", items |-> <<>>, layout |-> inner],
               !.hasList = HasMarker(inner),
               !.listGen = @ + 1],
     r, "adopt")

\* ------------------------------------------------------------ orchestrator
\* lines 116-120
Finish(S, r, success) ==
  IF success THEN End(SetPerformed(S, r), r, "success")
  ELSE IF ~designMode THEN End(HandleError(S, r), r, "failed")
  ELSE End(S, r, "failed")

\* #fetchJsonRecommendations up to `await fetch(url)`; site is "json" for the
\* call of line 95 and "retry" for the call of line 122.
StartJson(S, r, site) ==
  Ev(Ev([S EXCEPT !.runs[r].pc = site, !.runs[r].aborted = FALSE,
                  !.runs[r].superseded = FALSE],
        r, IF site = "retry" THEN "try:retry" ELSE "try:json"),
     r, "net:json")

\* #fetchFromCollection up to `await fetch(url)`
StartColl(S, r) ==
  Ev(Ev([S EXCEPT !.runs[r].pc = "coll", !.runs[r].aborted = FALSE,
                  !.runs[r].superseded = FALSE],
        r, "try:collection"),
     r, "net:collection")

\* catch (e) of line 121
Catch(S, r) == StartJson(Ev(S, r, "throw"), r, "retry")

\* lines 94-96 after the carousel branch
AfterHtml1(S, r, success) ==
  IF success THEN Finish(Ev(S, r, "ok"), r, TRUE)
  ELSE StartJson(Ev(S, r, "fail"), r, "json")

\* The marker test of #tryHtmlApiFirst (lines 139-140).
MarkerRequired(site) == site = "html1"

\* History: what the markup handed to the caller holds for the element elemId.
BodyEvent(body, elemId) ==
  IF body = EmptyBody THEN "body:empty"
  ELSE IF body.forId # elemId THEN "body:other"
  ELSE IF body.inner = "blank" THEN "body:blank"
  ELSE IF body.inner = "plain" THEN "body:plain"
  ELSE "body:marked"

\* What the caller of #fetchCachedRecommendations does with its result:
\* lines 132-144 for site "html1", lines 104-114 for site "html2".
AfterFetchCached(S0, r, site, result) ==
  LET run   == S0.runs[r]
      S     == IF result.success THEN Ev(S0, r, BodyEvent(result.data, run.id)) ELSE S0
      inner == FragmentInner(result.data, run.id)
      adopt == /\ result.success
               /\ NonBlank(inner)
               /\ MarkerRequired(site) => HasMarker(inner)
      S1    == IF adopt THEN Adopt(SetPerformed(S, r), r, inner) ELSE S
  IN  IF result.success /\ SelectorThrows(run.id) THEN Catch(S, r)
      ELSE IF site = "html1" THEN AfterHtml1(S1, r, adopt)
      ELSE Finish(Ev(S1, r, IF adopt THEN "ok" ELSE "fail"), r, adopt)

\* this.#activeFetch?.abort()
Abort(S) ==
  IF S.activeFetch = 0 THEN S
  ELSE [S EXCEPT !.runs[S.activeFetch].aborted = TRUE]

\* lines 330-334: abort the handle, make a new controller, fetch(url, signal)
IssueFetch(S, r, site, idx, url) ==
  LET S1 == Abort(S)
      S2 == [S1 EXCEPT
               !.activeFetch = r,
               !.runs = [q \in DOMAIN S1.runs |->
                           IF q = r
                             THEN [S1.runs[q] EXCEPT !.pc = site, !.urlIdx = idx,
                                                     !.aborted = FALSE,
                                                     !.superseded = FALSE]
                           ELSE IF S1.runs[q].pc \in {"html1", "html2"}
                             THEN [S1.runs[q] EXCEPT !.superseded = TRUE]
                           ELSE S1.runs[q]],
               !.lateCalls = IF url \in S1.okUrls THEN @ \cup {url} ELSE @]
  IN  Ev(S2, r, "net:primary")

\* #fetchCachedRecommendations from the idx-th candidate URL on (lines 324-346)
FetchCached(S, r, site, idx) ==
  LET run  == S.runs[r]
      urls == UrlsToTry(run.productId, run.sectionId)
  IN  IF idx > Len(urls)
        THEN AfterFetchCached(S, r, site, [success |-> FALSE, data |-> EmptyBody])
      ELSE IF CacheHit(S.cache, urls[idx])
        THEN AfterFetchCached(Ev(S, r, "hit:primary"), r, site,
                              [success |-> TRUE, data |-> S.cache[urls[idx]]])
      ELSE IssueFetch(S, r, site, idx, urls[idx])

\* The configuration test without the element id.
MissingConfig_ProductOnly(pid, elemId) == pid = ""

\* line 75
MissingConfig(pid, elemId) == pid = "" \/ elemId = ""

\* The completion test dropped.
AlreadyPerformed_Never(flag) == FALSE

\* line 80
AlreadyPerformed(flag) == flag = "true"

\* The test for the list container dropped.
NoListContainer_Never(S) == FALSE

\* lines 82-83
NoListContainer(S) == ~S.hasList

\* The layout test inverted: runs of the grid layout start with the markup
\* source.
TriesHtmlFirst_Inverted(layout) == layout # "carousel"

\* lines 85 and 90: the layout whose runs start with #tryHtmlApiFirst
TriesHtmlFirst(layout) == layout = "carousel"

\* #loadRecommendations from its start to its first network request
LoadRecommendations(S) ==
  LET r  == Len(S.runs) + 1
      S0 == [S EXCEPT !.runs = Append(@,
               [pc |-> "start", outcome |-> "running",
                productId |-> productId, sectionId |-> sectionId, id |-> id,
                isCarousel |-> (layoutType = "carousel"),
                listGen |-> S.listGen, urlIdx |-> 0,
                aborted |-> FALSE, superseded |-> FALSE,
                events |-> <<>>,
                perfAtStart |-> S.performed,
                trigger |-> "", ownOnly |-> FALSE,
                atEnd |-> [performed |-> S.performed, hidden |-> S.hidden,
                           dataError |-> S.dataError]])]
  IN  IF MissingConfig(productId, id)
        THEN IF ~designMode THEN End(HandleError(S0, r), r, "configError")
             ELSE End(S0, r, "configError")
      ELSE IF AlreadyPerformed(S.performed) THEN End(S0, r, "skipped")
      ELSE IF NoListContainer(S) THEN End(S0, r, "noList")
      ELSE IF TriesHtmlFirst(layoutType)
        THEN FetchCached(Ev(S0, r, "try:primary"), r, "html1", 1)
      ELSE StartJson(S0, r, "json")

\* The attributes the element itself writes (lines 109, 117, 142, 355, 356)
OwnWrites == {"data-recommendations-performed", "class", "data-error"}

\* A batch of mutation records that holds writes of the element only
OwnOnly(batch) == \A i \in 1..Len(batch) : batch[i] \in OwnWrites

\* History: which gate started run r, and for the mutation gate whether the
\* batch given to its callback held the element's own writes only.
Triggered(S, r, how, own) ==
  [S EXCEPT !.runs[r].trigger = how, !.runs[r].ownOnly = own]

\* --------------------------------------------------------------- responses
ProductLists == SeqsUpTo(ProductIds, MaxProducts)

\* "error": fetch or the body read rejects; "status": a non-2xx answer;
\* "abort": the rejection of a request whose signal was aborted.
HtmlResponses ==
  {[kind |-> k, body |-> EmptyBody] : k \in {"error", "status", "abort"}}
  \cup {[kind |-> "ok", body |-> b] : b \in Bodies}

\* "error" also stands for a body that response.json() cannot parse; an
\* answer without a `products` member behaves as the empty list.
JsonResponses ==
  {[kind |-> k, products |-> <<>>] : k \in {"error", "status"}}
  \cup {[kind |-> "ok", products |-> l] : l \in ProductLists}

\* A status test that also lets non-2xx answers through.
ResponseOk_AnyStatus(resp) == resp.kind \in {"ok", "status"}

\* line 335: response.ok; an aborted request never gets that far
ResponseOk(resp) == resp.kind = "ok"

\* lines 336-338: the body is cached under its URL
StoreResponse(S, url, text) ==
  [S EXCEPT !.cache = CachePut(@, url, text), !.okUrls = @ \cup {url}]

\* finally of line 342
ReleaseHandle(S) == [S EXCEPT !.activeFetch = 0]

\* lines 122-123
AfterRetry(S, r, jsonSuccess) ==
  IF jsonSuccess THEN End(Ev(S, r, "ok"), r, "retrySuccess")
  ELSE End(HandleError(Ev(S, r, "fail"), r), r, "retryFailed")

\* A JSON strategy whose failure escapes to the catch block of the caller.
AfterJson_Propagates(S, r, success) ==
  IF success THEN Finish(Ev(S, r, "ok"), r, TRUE)
  ELSE Catch(Ev(S, r, "fail"), r)

\* lines 98-103 after the JSON strategy
AfterJson(S, r, success) ==
  IF success THEN Finish(Ev(S, r, "ok"), r, TRUE)
  ELSE StartColl(Ev(S, r, "fail"), r)

\* A collection strategy after whose failure the run is never resumed.
AfterColl_Stops(S, r, success) ==
  IF success THEN Finish(Ev(S, r, "ok"), r, TRUE)
  ELSE [Ev(S, r, "fail") EXCEPT !.runs[r].pc = "start"]

\* lines 102-103 after the collection strategy
AfterColl(S, r, success) ==
  IF success THEN Finish(Ev(S, r, "ok"), r, TRUE)
  ELSE FetchCached(Ev(Ev(S, r, "fail"), r, "try:primary"), r, "html2", 1)

\* A filter that lets the current product through.
FilterProducts_KeepsAll(products, pid) == products

\* line 163
FilterProducts(products, pid) == SelectSeq(products, LAMBDA p : p # pid)

\* --------------------------------------------------------------------- Init
Init ==
  /\ attached = FALSE
  /\ ioObserving = FALSE
  /\ moObserving = FALSE
  /\ records = <<>>
  /\ productId = "P1"
  /\ layoutType \in {"grid", "carousel"}
  /\ sectionId \in {"", "S1"}
  /\ id \in {"", GoodId, BadId}
  /\ urlLimit = -1
  /\ designMode \in BOOLEAN
  /\ performed = ""
  /\ hidden = FALSE
  /\ dataError = FALSE
  /\ hasList \in BOOLEAN
  /\ listGen = 0
  /\ content = [kind |-> "initial", items |-> <<>>, layout |-> ""]
  /\ cache = <<>>
  /\ activeFetch = 0
  /\ runs = <<>>
  /\ okUrls = {}
  /\ lateCalls = {}
  /\ nMut = 0
  /\ nDetach = 0
  /\ hist = [detachedMut |-> FALSE]

\* ------------------------------------------------------------------ actions
\* connectedCallback
Connect ==
  /\ ~attached
  /\ attached' = TRUE
  /\ ioObserving' = TRUE
  /\ moObserving' = TRUE
  /\ UNCHANGED <<records, productId, layoutType, sectionId, id, urlLimit,
                 designMode, performed, hidden, dataError, hasList, listGen,
                 content, cache, activeFetch, runs, okUrls, lateCalls, nMut,
                 nDetach, hist>>

\* A disconnectedCallback that forgets the mutation observer.
Disconnect_KeepsMutationObserver ==
  /\ attached
  /\ nDetach < MaxDetach
  /\ attached' = FALSE
  /\ ioObserving' = FALSE
  /\ nDetach' = nDetach + 1
  /\ UNCHANGED <<moObserving, records, productId, layoutType, sectionId, id,
                 urlLimit, designMode, performed, hidden, dataError, hasList,
                 listGen, content, cache, activeFetch, runs, okUrls, lateCalls,
                 nMut, hist>>

\* disconnectedCallback; MutationObserver.disconnect drops the queued records
Disconnect ==
  /\ attached
  /\ nDetach < MaxDetach
  /\ attached' = FALSE
  /\ ioObserving' = FALSE
  /\ moObserving' = FALSE
  /\ records' = <<>>
  /\ nDetach' = nDetach + 1
  /\ UNCHANGED <<productId, layoutType, sectionId, id, urlLimit, designMode,
                 performed, hidden, dataError, hasList, listGen, content,
                 cache, activeFetch, runs, okUrls, lateCalls, nMut, hist>>

\* The callback of #intersectionObserver (lines 7-12) with an intersecting
\* entry; a non-intersecting entry returns at line 8 and changes nothing.
Intersect ==
  /\ ioObserving
  /\ records = <<>>
  /\ Len(runs) < MaxRuns
  /\ ioObserving' = FALSE
  /\ Apply(Triggered(LoadRecommendations(Cur), Len(runs) + 1, "proximity", FALSE))
  /\ UNCHANGED <<attached, moObserving, productId, layoutType, sectionId, id,
                 urlLimit, designMode, nMut, nDetach, hist>>

\* The page sets an attribute of the element.  Setting an attribute to the
\* value it has stands for a change of any attribute the code does not read.
SetAttribute(name, value) ==
  /\ nMut < MaxMutations
  /\ Len(runs) < MaxRuns
  /\ nMut' = nMut + 1
  /\ \/ /\ name = "data-product-id"
        /\ value \in {"", "P1"}
        /\ productId' = value
        /\ UNCHANGED layoutType
     \/ /\ name = "data-layout-type"
        /\ value \in {"grid", "carousel"}
        /\ layoutType' = value
        /\ UNCHANGED productId
  /\ records' = IF moObserving THEN Append(records, name) ELSE records
  /\ hist' = IF ~attached /\ nDetach > 0
               THEN [hist EXCEPT !.detachedMut = TRUE] ELSE hist
  /\ UNCHANGED <<attached, ioObserving, moObserving, sectionId, id, urlLimit,
                 designMode, performed, hidden, dataError, hasList, listGen,
                 content, cache, activeFetch, runs, okUrls, lateCalls, nDetach>>

\* The skip rules without the one for the 'hidden' class.
Ignored_NoClassRule(name, S) ==
  \/ name = "data-error"
  \/ name = "data-recommendations-performed" /\ S.performed = "true"

\* lines 26-36: the records the callback of #mutationObserver skips
Ignored(name, S) ==
  \/ name = "data-error"
  \/ name = "class" /\ S.hidden
  \/ name = "data-recommendations-performed" /\ S.performed = "true"

\* The callback of #mutationObserver (lines 20-42) on the queued records
DeliverMutations ==
  /\ records # <<>>
  /\ LET S0 == [Cur EXCEPT !.records = <<>>]
         triggers == \E i \in 1..Len(records) : ~Ignored(records[i], S0)
     IN  /\ triggers => Len(runs) < MaxRuns
         /\ Apply(IF triggers
                   THEN Triggered(LoadRecommendations(S0), Len(runs) + 1,
                                  "mutation", OwnOnly(records))
                   ELSE S0)
  /\ UNCHANGED <<attached, ioObserving, moObserving, productId, layoutType,
                 sectionId, id, urlLimit, designMode, nMut, nDetach, hist>>

\* A request of #fetchCachedRecommendations settles (lines 334-344)
HtmlResponse(r, resp) ==
  /\ r \in DOMAIN runs
  /\ runs[r].pc \in {"html1", "html2"}
  /\ records = <<>>
  /\ (resp.kind = "abort") <=> runs[r].aborted
  /\ LET run == runs[r]
         url == UrlsToTry(run.productId, run.sectionId)[run.urlIdx]
         S0  == IF resp.kind = "ok" THEN Ev(Cur, r, "http:2xx") ELSE Cur
         S1  == IF ResponseOk(resp)
                  THEN StoreResponse(IF run.superseded THEN Ev(S0, r, "stale") ELSE S0,
                                     url, resp.body)
                  ELSE S0
         S2  == ReleaseHandle(S1)
     IN  Apply(IF ResponseOk(resp)
                 THEN AfterFetchCached(S2, r, run.pc, [success |-> TRUE, data |-> resp.body])
                 ELSE FetchCached(S2, r, run.pc, run.urlIdx + 1))
  /\ UNCHANGED <<attached, ioObserving, moObserving, productId, layoutType,
                 sectionId, id, urlLimit, designMode, nMut, nDetach, hist>>

\* The request of #fetchJsonRecommendations settles (lines 293-306)
JsonResponse(r, resp) ==
  /\ r \in DOMAIN runs
  /\ runs[r].pc \in {"json", "retry"}
  /\ records = <<>>
  /\ LET success == resp.kind = "ok" /\ Len(resp.products) > 0 /\ hasList
         S1 == IF success THEN RenderProductCards(Cur, r, resp.products, TRUE) ELSE Cur
     IN  Apply(IF runs[r].pc = "retry" THEN AfterRetry(S1, r, success)
               ELSE AfterJson(S1, r, success))
  /\ UNCHANGED <<attached, ioObserving, moObserving, productId, layoutType,
                 sectionId, id, urlLimit, designMode, nMut, nDetach, hist>>

\* The request of #fetchFromCollection settles (lines 157-170)
CollResponse(r, resp) ==
  /\ r \in DOMAIN runs
  /\ runs[r].pc = "coll"
  /\ records = <<>>
  /\ LET filtered == FilterProducts(resp.products, runs[r].productId)
         success  == resp.kind = "ok" /\ Len(resp.products) > 0 /\ Len(filtered) > 0
         S1 == IF success
                 THEN RenderProductCards(Cur, r, Take(filtered, Limit(urlLimit)),
                                         runs[r].listGen = listGen)
                 ELSE Cur
     IN  Apply(AfterColl(S1, r, success))
  /\ UNCHANGED <<attached, ioObserving, moObserving, productId, layoutType,
                 sectionId, id, urlLimit, designMode, nMut, nDetach, hist>>

Next ==
  \/ Connect
  \/ Disconnect
  \/ Intersect
  \/ \E name \in {"data-product-id", "data-layout-type"},
        value \in {"", "P1", "grid", "carousel"} : SetAttribute(name, value)
  \/ DeliverMutations
  \/ \E r \in 1..MaxRuns, resp \in HtmlResponses : HtmlResponse(r, resp)
  \/ \E r \in 1..MaxRuns, resp \in JsonResponses : JsonResponse(r, resp)
  \/ \E r \in 1..MaxRuns, resp \in JsonResponses : CollResponse(r, resp)

Spec == Init /\ [][Next]_vars

\* ------------------------------------------------- vocabulary of the claims
Runs == DOMAIN runs

Done(r) == runs[r].pc = "done"

NetEvents == {"net:primary", "net:json", "net:collection"}

PolicyTries == {"try:primary", "try:json", "try:collection"}

\* The network requests a run issued, in order
Calls(r) == SelectSeq(runs[r].events, LAMBDA e : e \in NetEvents)

\* The policy strategies a run attempted, in order (the retry of the catch
\* block is not one of them)
Tries(r) == SelectSeq(runs[r].events, LAMBDA e : e \in PolicyTries)

IsPrefix(s, t) == Len(s) <= Len(t) /\ \A i \in 1..Len(s) : s[i] = t[i]

Outstanding(r) == runs[r].pc \in {"html1", "html2", "json", "coll", "retry"}

OutstandingPrimary(r) == runs[r].pc \in {"html1", "html2"}

\* ------------------------------------------------------------------ claims

\* C1: in grid layout a run calls the JSON endpoint first; it calls the
\* collection endpoint at most once and only straight after the JSON strategy
\* failed; it calls the primary-fragment endpoint only after the collection
\* strategy failed; and it calls no endpoint after a strategy has succeeded.
C1_GridOrder ==
  \A r \in Runs : ~runs[r].isCarousel =>
    LET ev == runs[r].events
    IN  /\ Calls(r) # <<>> => Calls(r)[1] = "net:json"
        /\ Count(ev, "net:collection") <= 1
        /\ \A i \in 1..Len(ev) :
             /\ ev[i] = "net:collection" =>
                  i > 3 /\ ev[i - 3] = "net:json" /\ ev[i - 2] = "fail"
             /\ ev[i] = "net:primary" =>
                  \E j \in 1..(i - 2) : ev[j] = "net:collection" /\ ev[j + 1] = "fail"
             /\ ev[i] = "ok" => \A j \in (i + 1)..Len(ev) : ev[j] \notin NetEvents

\* A grid run that fell through JSON and collection and succeeded on the
\* primary fragment.
C1_Witness ==
  \E r \in Runs :
    /\ ~runs[r].isCarousel
    /\ runs[r].outcome = "success"
    /\ Calls(r) = <<"net:json", "net:collection", "net:primary">>

\* C2: in carousel layout a run attempts exactly primary-fragment, JSON and
\* collection-fallback in that order, and once all three have failed it
\* attempts no further source.
C2_CarouselThreeStrategies ==
  \A r \in Runs : runs[r].isCarousel =>
    IsPrefix(Tries(r), <<"try:primary", "try:json", "try:collection">>)

\* C3 as stated: an activation that starts with the completion flag 'true'
\* issues no request, renders nothing and invokes no error handler.
C3_Original ==
  \A r \in Runs : runs[r].perfAtStart = "true" =>
    Done(r) /\ runs[r].events = <<>>

\* C3 as amended: an activation that starts with the completion flag 'true'
\* and with a product id and an element id issues no request, renders nothing
\* and invokes no error handler.
C3_PerformedIsNoOp ==
  \A r \in Runs :
    (runs[r].perfAtStart = "true" /\ runs[r].productId # "" /\ runs[r].id # "") =>
      Done(r) /\ runs[r].events = <<>>

\* A second activation, with an unchanged product id, after a run succeeded.
C3_Witness ==
  \E q, r \in Runs :
    /\ q < r
    /\ runs[q].outcome = "success"
    /\ runs[r].perfAtStart = "true"
    /\ runs[r].productId # "" /\ runs[r].id # ""
    /\ runs[r].outcome = "skipped"

\* C4: an activation without a product id or without an element id ends at
\* once as a configuration error, with no request and no write of the
\* completion flag; it invokes the error handler once when designMode is off
\* and not at all when it is on.
C4_MissingConfigFails ==
  \A r \in Runs : (runs[r].productId = "" \/ runs[r].id = "") =>
    /\ Done(r)
    /\ runs[r].outcome = "configError"
    /\ runs[r].events = IF designMode THEN <<>> ELSE <<"error">>
    /\ runs[r].atEnd.performed = runs[r].perfAtStart

\* An activation without an element id, reported to the error handler.
C4_Witness ==
  \E r \in Runs :
    /\ runs[r].id = ""
    /\ runs[r].outcome = "configError"
    /\ runs[r].events = <<"error">>
    /\ hidden

\* C5: a run in which a strategy succeeded, the retry of the catch block
\* included, ends with the completion flag 'true'.
C5_SuccessSetsFlag ==
  \A r \in Runs : (Done(r) /\ Has(runs[r].events, "ok")) =>
    runs[r].atEnd.performed = "true"

\* C6: with designMode off, a run all of whose strategies failed invokes the
\* error handler exactly once, ends with the element hidden and data-error
\* set, and never writes the completion flag.
C6_ExhaustionReportsOnce ==
  \A r \in Runs :
    (Done(r) /\ runs[r].outcome \in {"failed", "retryFailed"} /\ ~designMode) =>
      /\ Count(runs[r].events, "error") = 1
      /\ runs[r].atEnd.hidden
      /\ runs[r].atEnd.dataError
      /\ ~Has(runs[r].events, "flag")

\* A run with designMode off that tried every source and failed.
C6_Witness ==
  \E r \in Runs :
    /\ ~designMode
    /\ runs[r].outcome = "failed"
    /\ Len(Tries(r)) >= 3
    /\ Count(runs[r].events, "error") = 1

\* C7: while designMode is on no run invokes the error handler and the
\* element gains neither the 'hidden' class nor data-error.
C7_PreviewIsSilent ==
  designMode =>
    /\ \A r \in Runs : ~Has(runs[r].events, "error")
    /\ ~hidden
    /\ ~dataError

\* C8: once a request to a URL has completed with HTTP success, whatever its
\* body, no later request is issued to that URL.
C8_CachedUrlNotRefetched == lateCalls = {}

\* C9: at most one request that has not been cancelled is outstanding.
C9_SingleFlight ==
  Cardinality({r \in Runs : Outstanding(r) /\ ~runs[r].aborted}) <= 1

\* C10: a primary-fragment request that was outstanding when another
\* primary-fragment fetch started has been cancelled, and its answer is never
\* stored in the cache.
C10_SupersededIsCancelled ==
  \A r \in Runs :
    /\ runs[r].superseded => runs[r].aborted
    /\ ~Has(runs[r].events, "stale")

\* The URL of the primary-fragment request run r is waiting for
UrlOf(r) == UrlsToTry(runs[r].productId, runs[r].sectionId)[runs[r].urlIdx]

\* The events a step added to the history of run r
NewEvents(r) ==
  IF Len(runs'[r].events) > Len(runs[r].events)
    THEN SubSeq(runs'[r].events, Len(runs[r].events) + 1, Len(runs'[r].events))
    ELSE <<>>

\* C11: over the whole life of the element, detach and re-attach included,
\* the proximity gate starts at most one activation.
C11_ProximityOnce ==
  Cardinality({r \in Runs : runs[r].trigger = "proximity"}) <= 1

\* C12: a batch of mutation records that holds only writes of the element
\* itself (completion flag, 'hidden' class, data-error) starts no activation.
C12_OwnWritesDoNotRetrigger ==
  \A r \in Runs : runs[r].trigger = "mutation" => ~runs[r].ownOnly

\* The records of a failed run's error handling were delivered to the
\* observer, which never stopped observing, and no second run started.
C12_Witness ==
  /\ Len(runs) = 1
  /\ runs[1].outcome = "failed"
  /\ Has(runs[1].events, "error")
  /\ moObserving
  /\ nDetach = 0
  /\ nMut = 0
  /\ records = <<>>

\* C13: an activation started by a mutation other than the ignored kinds is
\* not stopped by the completion flag being 'true'.
C13_ConfigChangeReloads ==
  \A r \in Runs :
    (/\ runs[r].trigger = "mutation"
     /\ ~runs[r].ownOnly
     /\ runs[r].perfAtStart = "true"
     /\ runs[r].productId # ""
     /\ runs[r].id # "") => runs[r].outcome # "skipped"

\* C14: while the element is detached no step starts a run.
C14_NoRunWhileDetached == [][~attached => Len(runs') = Len(runs)]_vars

\* The element is detached and the page changed an attribute meanwhile.
C14_Witness == ~attached /\ nDetach > 0 /\ hist.detachedMut /\ records = <<>>

C16_StrategiesDoNotThrow ==
  \A r \in Runs :
    LET ev == runs[r].events
    IN  \A i \in 1..Len(ev) :
          /\ (ev[i] = "net:json" /\ ev[i - 1] = "try:json") =>
               IF i = Len(ev) THEN runs[r].pc = "json"
               ELSE \/ ev[i + 1] = "render"
                    \/ ev[i + 1] = "fail" /\ ev[i + 2] = "try:collection"
          /\ (ev[i] = "net:json" /\ ev[i - 1] = "try:retry") =>
               IF i = Len(ev) THEN runs[r].pc = "retry"
               ELSE \/ ev[i + 1] = "render"
                    \/ ev[i + 1] = "fail" /\ ev[i + 2] = "error" /\ Done(r)
          /\ ev[i] = "net:collection" =>
               IF i = Len(ev) THEN runs[r].pc = "coll"
               ELSE \/ ev[i + 1] = "render"
                    \/ ev[i + 1] = "fail" /\ ev[i + 2] = "try:primary"
          /\ ev[i] = "throw" =>
               i > 1 /\ ev[i - 1] \in {"body:empty", "body:other"}
                     /\ runs[r].id = BadId

\* A run whose JSON and collection requests both failed and which went on
\* to the primary-fragment source.
C16_Witness ==
  \E r \in Runs :
    /\ ~runs[r].isCarousel
    /\ Len(runs[r].events) >= 7
    /\ SubSeq(runs[r].events, 1, 7) =
         <<"try:json", "net:json", "fail", "try:collection", "net:collection",
           "fail", "try:primary">>

\* C17: at most one run of the orchestrator is in progress.
C17_OneRunAtATime == Cardinality({r \in Runs : ~Done(r)}) <= 1

\* C18: while the newest primary-fragment request is outstanding,
\* #activeFetch is the controller of that request.
C18_HandleTracksNewest ==
  \A r \in Runs :
    (OutstandingPrimary(r) /\ ~runs[r].superseded) => activeFetch = r

\* C19: no step removes a cache entry, and a step writes the entry of a URL
\* only with the body of a request to that URL that was not aborted and
\* answered with HTTP success.
C19_CacheOnlyFromSuccess ==
  [][/\ \A u \in DOMAIN cache : u \in DOMAIN cache'
     /\ \A u \in DOMAIN cache' :
          (u \in DOMAIN cache /\ cache'[u] = cache[u])
          \/ \E r \in Runs :
               /\ OutstandingPrimary(r)
               /\ ~runs[r].aborted
               /\ UrlOf(r) = u
               /\ NewEvents(r) # <<>>
               /\ NewEvents(r)[1] = "http:2xx"
               /\ Has(NewEvents(r), BodyEvent(cache'[u], runs[r].id))]_vars

\* The cache holds the answer of a request that ended with HTTP success.
C19_Witness ==
  /\ DOMAIN cache # {}
  /\ \E r \in Runs : Has(runs[r].events, "http:2xx")

\* C20: in carousel layout the element's content is replaced only by a
\* fragment that carries the data-has-recommendations="true" marker.
C20_CarouselNeedsMarker ==
  \A r \in Runs : (runs[r].isCarousel /\ runs[r].id = GoodId) =>
    \A i \in 1..Len(runs[r].events) :
      runs[r].events[i] = "adopt" => i > 2 /\ runs[r].events[i - 2] = "body:marked"

\* Position i of run r's history is the body of a 2xx answer to the first
\* candidate URL of a primary-fragment call.
FirstCandidateBody(r, i) ==
  LET ev == runs[r].events
  IN  \E j \in 1..Len(ev) :
        /\ j + 2 < i
        /\ ev[j] = "try:primary"
        /\ ev[j + 1] = "net:primary"
        /\ ev[j + 2] = "http:2xx"
        /\ i = j + 3 \/ (i = j + 4 /\ ev[j + 3] = "stale")

\* C21: when the first candidate URL answers 2xx with an empty body and a
\* second candidate URL exists, the second URL is tried next.
C21_EmptyBodyTriesNextUrl ==
  \A r \in Runs :
    Len(UrlsToTry(runs[r].productId, runs[r].sectionId)) = 2 =>
      \A i \in 1..Len(runs[r].events) :
        (runs[r].events[i] = "body:empty" /\ FirstCandidateBody(r, i)) =>
          /\ i < Len(runs[r].events)
          /\ runs[r].events[i + 1] \in {"net:primary", "hit:primary"}

\* ------------------------------------------- the collection strategy alone
\* A grid element whose data-url carries limit=0..3 or no limit at all, and a
\* collection endpoint that lists up to MaxCollProducts products.
CollLimits == {-1, 0, 1, 2, 3}

CollProductIds == {"P1", "P2", "P3", "P4"}

CollResponses ==
  {[kind |-> k, products |-> <<>>] : k \in {"error", "status"}}
  \cup {[kind |-> "ok", products |-> l] : l \in SeqsUpTo(CollProductIds, MaxCollProducts)}

InitColl ==
  /\ attached = FALSE
  /\ ioObserving = FALSE
  /\ moObserving = FALSE
  /\ records = <<>>
  /\ productId = "P1"
  /\ layoutType = "grid"
  /\ sectionId = ""
  /\ id = GoodId
  /\ urlLimit \in CollLimits
  /\ designMode = FALSE
  /\ performed = ""
  /\ hidden = FALSE
  /\ dataError = FALSE
  /\ hasList = TRUE
  /\ listGen = 0
  /\ content = [kind |-> "initial", items |-> <<>>, layout |-> ""]
  /\ cache = <<>>
  /\ activeFetch = 0
  /\ runs = <<>>
  /\ okUrls = {}
  /\ lateCalls = {}
  /\ nMut = 0
  /\ nDetach = 0
  /\ hist = [detachedMut |-> FALSE]

NextColl ==
  \/ Connect
  \/ Intersect
  \/ \E r \in 1..MaxRuns, resp \in JsonResponses : JsonResponse(r, resp)
  \/ \E r \in 1..MaxRuns, resp \in CollResponses : CollResponse(r, resp)
  \/ \E r \in 1..MaxRuns, resp \in HtmlResponses : HtmlResponse(r, resp)

SpecColl == InitColl /\ [][NextColl]_vars

\* C22: whatever the collection endpoint answers, the strategy succeeds iff
\* the answer is 2xx and lists a product other than the current one; on
\* success the rendered list is the first `limit` of the listed products
\* other than the current one, in the order of the answer, so it has at most
\* `limit` entries (default 4) and never holds the current product.
C22_CollectionFiltersAndTruncates ==
  [][\A r \in Runs, resp \in CollResponses :
       CollResponse(r, resp) =>
         LET pid   == runs[r].productId
             rest  == SelectSeq(resp.products, LAMBDA p : p # pid)
             limit == IF urlLimit = -1 THEN 4 ELSE urlLimit
             shown == content'.items
             ok    == NewEvents(r)[Len(NewEvents(r))] = "flag"
         IN  /\ ok <=> (resp.kind = "ok" /\ \E i \in 1..Len(resp.products) :
                                              resp.products[i] # pid)
             /\ ok => /\ NewEvents(r) = <<"render", "ok", "flag">>
                      /\ content'.kind = "cards"
                      /\ Len(shown) <= limit
                      /\ Len(shown) = IF Len(rest) < limit THEN Len(rest) ELSE limit
                      /\ \A i \in 1..Len(shown) : shown[i] = rest[i] /\ shown[i] # pid
             /\ ~ok => /\ NewEvents(r)[1] = "fail"
                       /\ content' = content]_vars

\* With no limit in data-url the collection strategy succeeded and rendered
\* four products, the default limit.
C22_Witness ==
  /\ urlLimit = -1
  /\ content.kind = "cards"
  /\ Len(content.items) = 4
  /\ \E r \in Runs :
       /\ runs[r].outcome = "success"
       /\ Has(runs[r].events, "net:collection")

\* The events a step added to the history of run r, r possibly started by
\* that step
AddedEvents(r) == IF r \in Runs THEN NewEvents(r) ELSE runs'[r].events

\* The JSON endpoint answered a request of run q with 2xx and a product list
\* that was rendered.
JsonAnswered(q) ==
  \E i \in 1..Len(runs[q].events) - 1 :
    runs[q].events[i] = "net:json" /\ runs[q].events[i + 1] = "render"

\* C23: once the JSON endpoint has answered a request with 2xx, no step
\* issues another request to the same JSON URL (same product id; limit and
\* intent do not change).
C23_JsonNotRefetched ==
  [][\A r \in DOMAIN runs' :
       Has(AddedEvents(r), "net:json") =>
         ~\E q \in Runs : runs[q].productId = runs'[r].productId /\ JsonAnswered(q)]_vars

\* ---------------------------------------------- every request is answered
\* The element with every configuration, attached, detached and attached
\* again, so that a second run can start while the first one waits; the
\* markup endpoint answers with an empty body or with a fragment for the
\* element, and every request is answered in the end.
LiveHtmlResponses ==
  {resp \in HtmlResponses :
     resp.kind = "ok" =>
       resp.body \in {EmptyBody, [forId |-> GoodId, inner |-> "plain"],
                      [forId |-> GoodId, inner |-> "marked"]}}

RespondLive ==
  \/ \E r \in 1..MaxRuns, resp \in LiveHtmlResponses : HtmlResponse(r, resp)
  \/ \E r \in 1..MaxRuns, resp \in JsonResponses : JsonResponse(r, resp)
  \/ \E r \in 1..MaxRuns, resp \in JsonResponses : CollResponse(r, resp)

InitLive ==
  /\ attached = FALSE
  /\ ioObserving = FALSE
  /\ moObserving = FALSE
  /\ records = <<>>
  /\ productId = "P1"
  /\ layoutType \in {"grid", "carousel"}
  /\ sectionId \in {"", "S1"}
  /\ id \in {GoodId, BadId}
  /\ urlLimit = -1
  /\ designMode \in BOOLEAN
  /\ performed = ""
  /\ hidden = FALSE
  /\ dataError = FALSE
  /\ hasList \in BOOLEAN
  /\ listGen = 0
  /\ content = [kind |-> "initial", items |-> <<>>, layout |-> ""]
  /\ cache = <<>>
  /\ activeFetch = 0
  /\ runs = <<>>
  /\ okUrls = {}
  /\ lateCalls = {}
  /\ nMut = 0
  /\ nDetach = 0
  /\ hist = [detachedMut |-> FALSE]

NextLive ==
  \/ Connect
  \/ Disconnect
  \/ Intersect
  \/ DeliverMutations
  \/ RespondLive

\* The mutation callback is a microtask and always runs; every request that
\* was issued is answered (with success, failure or abort).
SpecLive ==
  InitLive /\ [][NextLive]_vars /\ WF_vars(DeliverMutations) /\ WF_vars(RespondLive)

\* C24 as stated: a run that has ended has set the completion flag, has
\* called the error handler, or ran in preview mode.
C24_Original ==
  \A r \in Runs :
    Done(r) => \/ runs[r].atEnd.performed = "true"
               \/ Has(runs[r].events, "error")
               \/ designMode

\* C24: when every request is answered, every started run ends, after at
\* most seven requests; it ends with the completion flag set, with the error
\* handler called, silently in preview mode, silently for want of a list
\* container, or silently after the retry of the catch block rendered.
C24_EveryRunEnds ==
  /\ [](\A r \in Runs :
          /\ Len(Calls(r)) <= 7
          /\ Done(r) => \/ runs[r].atEnd.performed = "true"
                        \/ Has(runs[r].events, "error")
                        \/ designMode
                        \/ runs[r].outcome \in {"noList", "retrySuccess"})
  /\ []<>(\A r \in Runs : Done(r))

\* Two runs have ended, one of them after six requests or more.
C24_Witness ==
  /\ Len(runs) = 2
  /\ \A r \in Runs : Done(r)
  /\ \E r \in Runs : Len(Calls(r)) >= 6

\* ------------------------------- the second definition of the class (364-804)
\* It differs from the first in #loadRecommendations only: the completion
\* test also asks for a list container that carries the marker, and the
\* layout test that guards #tryHtmlApiFirst is the other way round.

\* querySelector('.resource-list[data-has-recommendations="true"]'): the
\* markup the page was served with or a fragment adopted later carries the
\* marker, and #renderProductCards sets it (line 232).
MarkedList(S) ==
  S.hasList /\ (S.content.kind = "cards" \/ S.content.layout = "marked")

\* lines 456-463
AlreadyPerformed2(flag, marked) == flag = "true" /\ marked

\* lines 482-488: the layout whose runs start with #tryHtmlApiFirst
TriesHtmlFirst2(layout) == ~(layout = "carousel")

\* #loadRecommendations of lines 436-533 from its start to its first request
LoadRecommendations2(S) ==
  LET r  == Len(S.runs) + 1
      S0 == [S EXCEPT !.runs = Append(@,
               [pc |-> "start", outcome |-> "running",
                productId |-> productId, sectionId |-> sectionId, id |-> id,
                isCarousel |-> (layoutType = "carousel"),
                listGen |-> S.listGen, urlIdx |-> 0,
                aborted |-> FALSE, superseded |-> FALSE,
                events |-> <<>>,
                perfAtStart |-> S.performed,
                trigger |-> "", ownOnly |-> FALSE,
                atEnd |-> [performed |-> S.performed, hidden |-> S.hidden,
                           dataError |-> S.dataError]])]
  IN  IF MissingConfig(productId, id)
        THEN IF ~designMode THEN End(HandleError(S0, r), r, "configError")
             ELSE End(S0, r, "configError")
      ELSE IF AlreadyPerformed2(S.performed, MarkedList(S)) THEN End(S0, r, "skipped")
      ELSE IF NoListContainer(S) THEN End(S0, r, "noList")
      ELSE IF TriesHtmlFirst2(layoutType)
        THEN FetchCached(Ev(S0, r, "try:primary"), r, "html1", 1)
      ELSE StartJson(S0, r, "json")

\* The callback of #intersectionObserver (lines 369-378)
Intersect2 ==
  /\ ioObserving
  /\ records = <<>>
  /\ Len(runs) < MaxRuns
  /\ ioObserving' = FALSE
  /\ Apply(Triggered(LoadRecommendations2(Cur), Len(runs) + 1, "proximity", FALSE))
  /\ UNCHANGED <<attached, moObserving, productId, layoutType, sectionId, id,
                 urlLimit, designMode, nMut, nDetach, hist>>

\* The callback of #mutationObserver (lines 384-406) on the queued records
DeliverMutations2 ==
  /\ records # <<>>
  /\ LET S0 == [Cur EXCEPT !.records = <<>>]
         triggers == \E i \in 1..Len(records) : ~Ignored(records[i], S0)
     IN  /\ triggers => Len(runs) < MaxRuns
         /\ Apply(IF triggers
                   THEN Triggered(LoadRecommendations2(S0), Len(runs) + 1,
                                  "mutation", OwnOnly(records))
                   ELSE S0)
  /\ UNCHANGED <<attached, ioObserving, moObserving, productId, layoutType,
                 sectionId, id, urlLimit, designMode, nMut, nDetach, hist>>

\* The element as the page serves it: its list container, if any, with or
\* without the marker.
Init2 ==
  /\ attached = FALSE
  /\ ioObserving = FALSE
  /\ moObserving = FALSE
  /\ records = <<>>
  /\ productId = "P1"
  /\ layoutType \in {"grid", "carousel"}
  /\ sectionId \in {"", "S1"}
  /\ id \in {"", GoodId, BadId}
  /\ urlLimit = -1
  /\ designMode \in BOOLEAN
  /\ performed = ""
  /\ hidden = FALSE
  /\ dataError = FALSE
  /\ hasList \in BOOLEAN
  /\ listGen = 0
  /\ content \in {[kind |-> "initial", items |-> <<>>, layout |-> l] :
                    l \in IF hasList THEN {"", "marked"} ELSE {""}}
  /\ cache = <<>>
  /\ activeFetch = 0
  /\ runs = <<>>
  /\ okUrls = {}
  /\ lateCalls = {}
  /\ nMut = 0
  /\ nDetach = 0
  /\ hist = [detachedMut |-> FALSE]

Next2 ==
  \/ Connect
  \/ Intersect2
  \/ \E name \in {"data-product-id", "data-layout-type"},
        value \in {"", "P1", "grid", "carousel"} : SetAttribute(name, value)
  \/ DeliverMutations2
  \/ \E r \in 1..MaxRuns, resp \in HtmlResponses : HtmlResponse(r, resp)
  \/ \E r \in 1..MaxRuns, resp \in JsonResponses : JsonResponse(r, resp)
  \/ \E r \in 1..MaxRuns, resp \in JsonResponses : CollResponse(r, resp)

Spec2 == Init2 /\ [][Next2]_vars

\* C25: in the second definition of the class a carousel run starts with the
\* primary-fragment strategy and a grid run with the JSON strategy.
C25_SecondClassOrder ==
  \A r \in Runs :
    Tries(r) # <<>> =>
      Tries(r)[1] = IF runs[r].isCarousel THEN "try:primary" ELSE "try:json"

\* C26: once a run has called #handleError the element stays hidden with
\* data-error set, whatever happens later, a later successful run included.
C26_ErrorStateIsKept ==
  \A r \in Runs : Has(runs[r].events, "error") => hidden /\ dataError

\* A run failed and called the error handler, a later run succeeded: the
\* element is done and still hidden with data-error set.
C26_Witness ==
  /\ performed = "true"
  /\ hidden
  /\ dataError
  /\ \E q, r \in Runs :
       /\ q < r
       /\ Has(runs[q].events, "error")
       /\ runs[r].outcome = "success"

\* C27 as stated: an activation that finds no list container in the element
\* requests nothing, calls no error handler and leaves completion flag,
\* cache and fetch handle as they were.
C27_Original ==
  [][(Len(runs') = Len(runs) + 1 /\ ~hasList) =>
       /\ runs'[Len(runs')].events = <<>>
       /\ performed' = performed
       /\ cache' = cache
       /\ activeFetch' = activeFetch]_vars

\* C27: an activation with product id and element id present that finds no
\* list container in the element returns at once: it requests nothing,
\* calls no error handler and leaves completion flag, error state, content,
\* cache and fetch handle as they were, in both layouts.
C27_NoListIsNoOp ==
  [][(Len(runs') = Len(runs) + 1 /\ ~hasList /\ productId # "" /\ id # "") =>
       /\ runs'[Len(runs')].events = <<>>
       /\ runs'[Len(runs')].pc = "done"
       /\ performed' = performed
       /\ hidden' = hidden
       /\ dataError' = dataError
       /\ content' = content
       /\ cache' = cache
       /\ activeFetch' = activeFetch]_vars

\* A carousel activation returned for want of a list container.
C27_Witness ==
  \E r \in Runs :
    /\ runs[r].isCarousel
    /\ runs[r].outcome = "noList"
    /\ runs[r].events = <<>>
    /\ performed = ""
    /\ ~hidden
====
